---- MODULE Spec2Model ----
(***************************************************************************)
(* The independent-cascade diffusion engine of                             *)
(* k_submodular/influence_maximization/independent_cascade.py:             *)
(*   independent_cascade, _diffuse_all, _diffuse_k_rounds,                 *)
(*   _diffuse_one_round, _prop_success  (the edge-enumeration strategy)    *)
(*   vectorized_IC                      (the frontier/matrix strategy)     *)
(*                                                                         *)
(* Probabilities and random values are counted in tenths: the probability  *)
(* 1 is One, the default 0.1 is DefaultActProb, and random.random()        *)
(* returns a value of Draws, a subset of [0, 1).                           *)
(* The graph is a networkx DiGraph over the nodes of Node: a function from *)
(* its edge set (self-loops included) to the edge's attributes, <<>> when  *)
(* the edge has no act_prob and <<p>> when act_prob is p.                  *)
(***************************************************************************)
EXTENDS Integers, Sequences, FiniteSets, TLC

\* ---------------------------------------------------------------- bounds
MaxEdges == 2
MaxSeeds == 2
MaxSteps == 1

\* ------------------------------------------------------ program constants
One == 10
DefaultActProb == 1

\* G.nodes()
Node == {1, 2, 3}
\* len(G)
NumNodes == Cardinality(Node)
\* A seed may name a node the graph does not have.
Ident == Node \cup {NumNodes + 1}
Pairs == Node \X Node
\* act_prob values of a well-formed graph: 0, 0.5 and 1
ValidProbs == {0, 5, One}
\* values random.random() returns: 0.0 and 0.7
Draws == {0, 7}
StepBudgets == {-1} \cup (0..MaxSteps)

VARIABLES
  G,              \* the caller's graph
  G0,             \* the caller's graph as it was when the call was made
  seeds,          \* the caller's seed list
  steps,          \* the step budget
  weighted_graph, \* the weighted_graph argument
  copy_graph,     \* the copy_graph argument
  pc,             \* where the call is
  DGcopy,         \* the engine's own copy of the graph (copy_graph), else <<>>
  todo,           \* edges the set-up loop has still to visit
  A,              \* the activated list
  tried_edges,
  layer_i_nodes,
  steps_left,     \* _diffuse_k_rounds' steps
  len_old,
  activated_nodes_of_this_round,
  cur_tried_edges,
  idx,            \* position of `for s in A`
  nbs,            \* what `for nb in G.successors(s)` has still to visit
  round,          \* number of rounds begun
  draws,          \* the calls of _prop_success so far
  infected_status,\* vectorized_IC
  current_active, \* vectorized_IC
  infected_nodes, \* vectorized_IC
  vround,         \* vectorized_IC: rounds run
  vtrials,        \* vectorized_IC: the Bernoulli trials drawn
  calls,          \* the caller's notes of the calls that have returned
  reversed_adj,   \* the graph's adjacency lists run from the highest node down
  other,          \* the locals of a second trial that is not running now, or <<>>
  K_networks,     \* Experiment: the weighted graph of each topic
  seed_set,       \* value_function: the pairs (item_idx, location_idx)
  n_mc,           \* value_function: the number of trials
  topic_idx,      \* value_function: position of `for topic_idx, topic`
  mc_t,           \* value_function: the t ic_runner is run for
  vf_infected_nodes, \* value_function: infected_nodes, a list per trial
  value           \* value_function: what it returned, <<>> before

experiment == <<K_networks, seed_set, n_mc, topic_idx, mc_t, vf_infected_nodes, value>>
inputs == <<G0, seeds, steps, weighted_graph, copy_graph, calls, reversed_adj, other,
            experiment>>
trial == <<A, tried_edges, layer_i_nodes, steps_left, len_old,
           activated_nodes_of_this_round, cur_tried_edges, idx, nbs, round, draws>>
vec == <<infected_status, current_active, infected_nodes, vround, vtrials>>
vars == <<G, inputs, pc, DGcopy, todo, trial, vec>>

\* ---------------------------------------------------------------- helpers
Range(s) == {s[k] : k \in 1..Len(s)}

RECURSIVE SetToListUnstable(_)
RECURSIVE SetToList(_)
\* list(a_set): the elements in ascending order (CPython iterates a set of
\* small ints in that order)
SetToListUnstable(S) ==
  IF S = {} THEN <<>>
  ELSE LET m == CHOOSE x \in S : \A y \in S : IF calls = <<>> THEN x <= y ELSE x >= y
       IN <<m>> \o SetToListUnstable(S \ {m})
SetToList(S) ==
  IF S = {} THEN <<>>
  ELSE LET m == CHOOSE x \in S : \A y \in S : x <= y
       IN <<m>> \o SetToList(S \ {m})

RECURSIVE Flatten(_)
\* [i for l in layers for i in l]
Flatten(ls) == IF ls = <<>> THEN <<>> ELSE Head(ls) \o Flatten(Tail(ls))

EdgeLess(e, f) == e[1] < f[1] \/ (e[1] = f[1] /\ e[2] <= f[2])
\* G.edges() lists the edges by source, then by target
FirstEdge(S) == CHOOSE e \in S : \A f \in S : EdgeLess(e, f)

Edges(g) == DOMAIN g
Reverse(s) == [k \in 1..Len(s) |-> s[Len(s) + 1 - k]]
\* G.successors(s), in adjacency order: the order the edges of s were added
\* in, by ascending target or, with reversed_adj, by descending target
successors(g, s) ==
  LET asc == SetToList({v \in Node : <<s, v>> \in Edges(g)})
  IN IF reversed_adj THEN Reverse(asc) ELSE asc
HasActProb(g, e) == g[e] # <<>>
ActProb(g, e) == g[e][1]

\* DG of independent_cascade: the caller's graph itself unless copy_graph
DG == IF copy_graph THEN DGcopy ELSE G

\* `s not in G.nodes()` for some seed
UnknownSeedsNone(sds) == {}
UnknownSeeds(sds) == {k \in 1..Len(sds) : sds[k] \notin Node}

\* random.random() <= act_prob
PropSuccessFlipped(r, p) == r >= p
prop_success(r, p) == r <= p

\* nb in A or (s, nb) in tried_edges or (s, nb) in cur_tried_edges
SkipNoTried(a, tried, cur, s, nb) == nb \in Range(a) \/ <<s, nb>> \in cur
SkipIgnoringA(a, tried, cur, s, nb) == <<s, nb>> \in tried \/ <<s, nb>> \in cur
SkipActivated(a, tried, cur, s, nb) ==
  \/ nb \in Range(a) \/ <<s, nb>> \in tried \/ <<s, nb>> \in cur
  \/ nb \in activated_nodes_of_this_round
Skip(a, tried, cur, s, nb) ==
  nb \in Range(a) \/ <<s, nb>> \in tried \/ <<s, nb>> \in cur

\* tried_edges.union(cur_tried_edges)
TriedForget(tried, cur) == tried
TriedUnion(tried, cur) == tried \cup cur

\* len(A) == len_old
QuiescentAlways(lenA, lenOld) == lenA >= lenOld
Quiescent(lenA, lenOld) == lenA = lenOld

\* ------------------------------------------------------------------- Init
Graphs(n, probs) ==
  UNION {[E -> probs] : E \in {X \in SUBSET Pairs : Cardinality(X) <= n}}
SeedLists(ids) == UNION {[1..n -> ids] : n \in 0..MaxSeeds}

InitLocals ==
  /\ G0 = G
  /\ pc = "check_seeds"
  /\ DGcopy = <<>>
  /\ todo = {}
  /\ A = <<>>
  /\ tried_edges = {}
  /\ layer_i_nodes = <<>>
  /\ steps_left = 0
  /\ len_old = 0
  /\ activated_nodes_of_this_round = {}
  /\ cur_tried_edges = {}
  /\ idx = 0
  /\ nbs = <<>>
  /\ round = 0
  /\ draws = <<>>
  /\ infected_status = <<>>
  /\ current_active = <<>>
  /\ infected_nodes = <<>>
  /\ vround = 0
  /\ vtrials = {}
  /\ calls = <<>>

\* a call on a graph whose adjacency lists are in ascending order
NoExperiment ==
  /\ K_networks = <<>>
  /\ seed_set = <<>>
  /\ n_mc = 0
  /\ topic_idx = 0
  /\ mc_t = 0
  /\ vf_infected_nodes = <<>>
  /\ value = <<>>

InitCall == InitLocals /\ reversed_adj = FALSE /\ other = <<>> /\ NoExperiment

\* A weighted graph with every act_prob in [0, 1], seeds of the graph, the
\* defaults of the optional arguments, any step budget.
Init ==
  /\ G \in Graphs(MaxEdges, {<<p>> : p \in ValidProbs})
  /\ seeds \in SeedLists(Node)
  /\ steps \in StepBudgets
  /\ weighted_graph = TRUE
  /\ copy_graph = FALSE
  /\ InitCall

\* -------------------------------------------------- independent_cascade
\* lines 64-67
CheckSeeds ==
  /\ pc = "check_seeds"
  /\ pc' = IF UnknownSeeds(seeds) # {} THEN "raised" ELSE "copy"
  /\ UNCHANGED <<G, inputs, DGcopy, todo, trial, vec>>

\* lines 69-76
CopyGraph ==
  /\ pc = "copy"
  /\ DGcopy' = IF copy_graph THEN G ELSE <<>>
  /\ todo' = IF weighted_graph THEN {} ELSE Edges(G)
  /\ pc' = "init_probs"
  /\ UNCHANGED <<G, inputs, trial, vec>>

\* DG[e[0]][e[1]]['act_prob'] = 0.1, in the caller's graph unless copy_graph
WriteActProb(e) ==
  IF copy_graph
  THEN DGcopy' = [DGcopy EXCEPT ![e] = <<DefaultActProb>>] /\ G' = G
  ELSE G' = [G EXCEPT ![e] = <<DefaultActProb>>] /\ DGcopy' = DGcopy

\* lines 78-85: one edge of `for e in DG.edges()`, or the end of the loop
InitActProb ==
  /\ pc = "init_probs"
  /\ IF todo = {}
     THEN /\ pc' = "diffuse"
          /\ UNCHANGED <<G, DGcopy, todo>>
     ELSE LET e == FirstEdge(todo) IN
          IF ~HasActProb(DG, e)
          THEN /\ WriteActProb(e)
               /\ todo' = todo \ {e}
               /\ pc' = pc
          ELSE IF ActProb(DG, e) > One
          THEN /\ pc' = "raised"
               /\ UNCHANGED <<G, DGcopy, todo>>
          ELSE /\ todo' = todo \ {e}
               /\ UNCHANGED <<G, DGcopy, pc>>
  /\ UNCHANGED <<inputs, trial, vec>>

\* lines 88-93 with 96-98 and 110-112
StartDiffusion ==
  /\ pc = "diffuse"
  /\ A' = seeds
  /\ tried_edges' = {}
  /\ layer_i_nodes' = <<seeds>>
  /\ steps_left' = steps
  /\ pc' = "loop"
  /\ UNCHANGED <<G, inputs, DGcopy, todo, len_old, activated_nodes_of_this_round,
                 cur_tried_edges, idx, nbs, round, draws, vec>>

\* `while True` of _diffuse_all, `while steps > 0 and len(A) < len(G)` of
\* _diffuse_k_rounds
LoopEntersNoBudget == steps <= 0 \/ Len(A) < NumNodes
LoopEntersShortOfAll == steps <= 0 \/ (steps_left > 0 /\ Len(A) < NumNodes - 1)
LoopEnters == steps <= 0 \/ (steps_left > 0 /\ Len(A) < NumNodes)

\* lines 99-100, 113-114 and 125-126: the loop test and the start of a round
LoopHead ==
  /\ pc = "loop"
  /\ IF LoopEnters
     THEN /\ len_old' = Len(A)
          /\ activated_nodes_of_this_round' = {}
          /\ cur_tried_edges' = {}
          /\ idx' = 0
          /\ nbs' = <<>>
          /\ round' = round + 1
          /\ pc' = "round"
     ELSE /\ pc' = "returned"
          /\ UNCHANGED <<len_old, activated_nodes_of_this_round, cur_tried_edges,
                         idx, nbs, round>>
  /\ UNCHANGED <<G, inputs, DGcopy, todo, A, tried_edges, layer_i_nodes,
                 steps_left, draws, vec>>

\* line 127-128: the next s of `for s in A`
NextSource ==
  /\ pc = "round"
  /\ nbs = <<>>
  /\ idx < Len(A)
  /\ idx' = idx + 1
  /\ nbs' = successors(DG, A[idx + 1])
  /\ UNCHANGED <<G, inputs, pc, DGcopy, todo, A, tried_edges, layer_i_nodes,
                 steps_left, len_old, activated_nodes_of_this_round,
                 cur_tried_edges, round, draws, vec>>

\* lines 129-130
SkipNeighbor ==
  /\ pc = "round"
  /\ nbs # <<>>
  /\ Skip(A, tried_edges, cur_tried_edges, A[idx], Head(nbs))
  /\ nbs' = Tail(nbs)
  /\ UNCHANGED <<G, inputs, pc, DGcopy, todo, A, tried_edges, layer_i_nodes,
                 steps_left, len_old, activated_nodes_of_this_round,
                 cur_tried_edges, idx, round, draws, vec>>

\* lines 131-133 and 138-139: random.random() is called, then act_prob is
\* read (a KeyError when the edge has none), then the two are compared
Attempt ==
  /\ pc = "round"
  /\ nbs # <<>>
  /\ ~Skip(A, tried_edges, cur_tried_edges, A[idx], Head(nbs))
  /\ LET s == A[idx]
         nb == Head(nbs)
     IN \E r \in Draws :
          /\ draws' = Append(draws, [round |-> round, src |-> s, dest |-> nb, r |-> r])
          /\ IF ~HasActProb(DG, <<s, nb>>)
             THEN /\ pc' = "raised"
                  /\ UNCHANGED <<activated_nodes_of_this_round, cur_tried_edges, nbs>>
             ELSE /\ activated_nodes_of_this_round' =
                       IF prop_success(r, ActProb(DG, <<s, nb>>))
                       THEN activated_nodes_of_this_round \cup {nb}
                       ELSE activated_nodes_of_this_round
                  /\ cur_tried_edges' = cur_tried_edges \cup {<<s, nb>>}
                  /\ nbs' = Tail(nbs)
                  /\ pc' = pc
  /\ UNCHANGED <<G, inputs, DGcopy, todo, A, tried_edges, layer_i_nodes,
                 steps_left, len_old, idx, round, vec>>

\* A.extend(...) of line 135 as the record sees it: layer 0 is a copy of A
\* ([i for i in A], lines 98 and 112), so the record is left as it is
RecordAliasingA(layers, new) == [layers EXCEPT ![1] = layers[1] \o new]
RecordAfterExtend(layers, new) == layers

\* lines 134-136, then 103-106 or 117-121
EndRound ==
  /\ pc = "round"
  /\ nbs = <<>>
  /\ idx = Len(A)
  /\ LET new == SetToList(activated_nodes_of_this_round) IN
       /\ A' = A \o new
       /\ layer_i_nodes' = Append(RecordAfterExtend(layer_i_nodes, new), new)
       /\ tried_edges' = TriedUnion(tried_edges, cur_tried_edges)
       /\ IF Quiescent(Len(A \o new), len_old)
          THEN pc' = "returned" /\ steps_left' = steps_left
          ELSE pc' = "loop" /\ steps_left' = IF steps <= 0 THEN steps_left ELSE steps_left - 1
  /\ UNCHANGED <<G, inputs, DGcopy, todo, len_old, activated_nodes_of_this_round,
                 cur_tried_edges, idx, nbs, round, draws, vec>>

\* ------------------------------------------------------------ vectorized_IC
\* the status list of line 198
UNINFECTED == 0
INFECTED == 1
REMOVED == 2

\* nx.adjacency_matrix(G, nodelist=sorted(G.nodes)) over the edge
\* probabilities (lines 266-269): 0 where there is no edge
AdjMatrix(g) ==
  [u \in Node |-> [v \in Node |->
     IF <<u, v>> \in Edges(g) THEN ActProb(g, <<u, v>>) ELSE 0]]

\* np.random.binomial(1, p), decided by a uniform value r of [0, 1)
Binomial1(r, p) == r < p

\* line 214: the uninfected nodes some active row has a positive probability for
Neighbors(M, active, status) ==
  {v \in Node : /\ \E k \in 1..Len(active) : M[active[k]][v] > 0
                /\ status[v] = UNINFECTED}

\* lines 226-230: the three status updates, in the code's order
UpdateStatusKeepActive(status, neighbors, active, next) ==
  [v \in Node |->
     IF v \in next THEN INFECTED
     ELSE IF v \in neighbors THEN REMOVED
     ELSE status[v]]
UpdateStatus(status, neighbors, active, next) ==
  [v \in Node |->
     IF v \in next THEN INFECTED
     ELSE IF v \in Range(active) \/ v \in neighbors THEN REMOVED
     ELSE status[v]]

\* lines 194-204, run on the graph and the seeds of the finished trial
VecStart ==
  /\ pc = "returned"
  /\ infected_status' = [v \in Node |-> IF v \in Range(seeds) THEN INFECTED ELSE UNINFECTED]
  /\ infected_nodes' = <<seeds>>
  /\ current_active' = seeds
  /\ pc' = "vec_loop"
  /\ UNCHANGED <<G, inputs, DGcopy, todo, trial, vround, vtrials>>

\* the entries of active_prob that binomial(1, active_prob) can set: a row
\* per element of current_active, a column per node
Entries(M, active) ==
  {e \in (1..Len(active)) \X Node : M[active[e[1]]][e[2]] > 0}

\* lines 206-239: one iteration of the loop
VecRound ==
  /\ pc = "vec_loop"
  /\ LET M == AdjMatrix(G)
         neighbors == Neighbors(M, current_active, infected_status)
         ents == Entries(M, current_active)
     IN \E d \in [ents -> Draws] :
          LET next_layer == {e \in ents : Binomial1(d[e], M[current_active[e[1]]][e[2]])}
              next_infected == {v \in neighbors : \E e \in next_layer : e[2] = v}
              status == UpdateStatus(infected_status, neighbors, current_active, next_infected)
              active == SetToList({v \in Node : status[v] = INFECTED})
          IN /\ vtrials' = vtrials \cup
                  {[round |-> vround + 1, row |-> e[1], src |-> current_active[e[1]],
                    dest |-> e[2], r |-> d[e]] : e \in ents}
             /\ infected_status' = status
             /\ current_active' = active
             /\ infected_nodes' = Append(infected_nodes, active)
             /\ vround' = vround + 1
             /\ pc' = IF next_infected = {} THEN "vec_done" ELSE "vec_loop"
  /\ UNCHANGED <<G, inputs, DGcopy, todo, trial>>

Next ==
  \/ CheckSeeds
  \/ CopyGraph
  \/ InitActProb
  \/ StartDiffusion
  \/ LoopHead
  \/ NextSource
  \/ SkipNeighbor
  \/ Attempt
  \/ EndRound

Spec == Init /\ [][Next]_vars

\* Any graph, with edges that lack act_prob or hold one above 1, any seed
\* list, with seeds the graph does not have, every combination of the
\* optional arguments.
InitSetup ==
  /\ G \in Graphs(MaxEdges, {<<>>} \cup {<<p>> : p \in {5, One + 2}})
  /\ seeds \in SeedLists(Ident)
  /\ steps \in {0, 1}
  /\ weighted_graph \in BOOLEAN
  /\ copy_graph \in BOOLEAN
  /\ InitCall

SpecSetup == InitSetup /\ [][Next]_vars

\* The two strategies on the same weighted graph and the same seeds: the
\* edge-enumeration trial run to quiescence, then vectorized_IC. One edge
\* more than in Init: a node that two active nodes try in different rounds
\* takes three edges.
InitVec ==
  /\ G \in Graphs(MaxEdges + 1, {<<p>> : p \in ValidProbs})
  /\ seeds \in SeedLists(Node)
  /\ steps = 0
  /\ weighted_graph = TRUE
  /\ copy_graph = FALSE
  /\ InitCall

NextVec == Next \/ VecStart \/ VecRound

SpecVec == InitVec /\ [][NextVec]_vars

\* ----------------------------------------------------------------- claims
\* the union of the layers of the record: the final activated set
Activated(layers) == Range(Flatten(layers))

\* number of calls of _prop_success for the edge e
AttemptsOn(e) ==
  Cardinality({k \in 1..Len(draws) : draws[k].src = e[1] /\ draws[k].dest = e[2]})

\* the attempt d succeeded
Succeeded(d) ==
  /\ HasActProb(DG, <<d.src, d.dest>>)
  /\ prop_success(d.r, ActProb(DG, <<d.src, d.dest>>))

RECURSIVE Closure(_, _)
\* the nodes a directed path of E reaches from S, S included
Closure(E, S) ==
  LET T == S \cup {v \in Node : \E u \in S : <<u, v>> \in E}
  IN IF T = S THEN S ELSE Closure(E, T)

AllProbsAre(p) == \A e \in Edges(G0) : HasActProb(G0, e) /\ ActProb(G0, e) = p

\* C1: in a trial, whatever the graph, the seed list (repeated seeds
\* included), the step budget and the draws, no directed edge is handed to
\* _prop_success more than once.
C1_EdgeAttemptedAtMostOnce == \A e \in Pairs : AttemptsOn(e) <= 1

\* a failed attempt whose source stays activated and whose target stays
\* unactivated through a later round: the edge was there to be tried again
C1_Witness ==
  /\ pc = "returned"
  /\ \E k \in 1..Len(draws) :
       /\ ~Succeeded(draws[k])
       /\ draws[k].round < round
       /\ draws[k].dest \notin Range(A)
       /\ \E j \in 1..Len(seeds) : j < Len(seeds) /\ seeds[j] = seeds[j + 1]

\* the draws of the edge-enumeration trial and the Bernoulli trials of
\* vectorized_IC give every directed edge one outcome (an edge of
\* probability 0 has but one outcome under binomial(1, 0): failure)
EquivalentDraws ==
  LET M == AdjMatrix(G)
      won(t) == Binomial1(t.r, M[t.src][t.dest])
  IN /\ \A k \in 1..Len(draws) : \A t \in vtrials :
          (draws[k].src = t.src /\ draws[k].dest = t.dest)
            => (Succeeded(draws[k]) <=> won(t))
     /\ \A t1, t2 \in vtrials :
          (t1.src = t2.src /\ t1.dest = t2.dest) => (won(t1) <=> won(t2))
     /\ \A k \in 1..Len(draws) :
          M[draws[k].src][draws[k].dest] = 0 => ~Succeeded(draws[k])

\* C2: on the same graph, probabilities and seeds, with one outcome fixed
\* for every directed edge, vectorized_IC ends with the same activated set
\* as independent_cascade run to quiescence.
C2_SameFinalActivatedSet ==
  (pc = "vec_done" /\ EquivalentDraws)
    => Activated(infected_nodes) = Activated(layer_i_nodes)

\* C3: with every act_prob equal to 1, a run to quiescence returns layers
\* whose union is the set of nodes reachable from the seeds.
C3_AllOnesReachClosure ==
  (pc = "returned" /\ steps <= 0 /\ AllProbsAre(One))
    => Activated(layer_i_nodes) = Closure(Edges(G0), Range(seeds))

\* a node two edges away from the seeds was reached
C3_Witness ==
  /\ pc = "returned" /\ steps <= 0 /\ AllProbsAre(One)
  /\ Len(layer_i_nodes) >= 4
  /\ layer_i_nodes[3] # <<>>

\* C4: with every act_prob equal to 0, whatever the step budget and the
\* values drawn, the union of the layers is the seed set.
C4_AllZerosOnlySeeds ==
  (layer_i_nodes # <<>> /\ AllProbsAre(0))
    => Activated(layer_i_nodes) = Range(seeds)

\* C5: every attempt of round k has a source of layer k-1, and all the
\* attempts of a node are made in one round.
C5_OnlyFrontierAttempts ==
  /\ \A k \in 1..Len(draws) :
       /\ draws[k].round >= 1
       /\ draws[k].round <= Len(layer_i_nodes)
       /\ draws[k].src \in Range(layer_i_nodes[draws[k].round])
  /\ \A j, k \in 1..Len(draws) :
       draws[j].src = draws[k].src => draws[j].round = draws[k].round

\* a seed whose attempt failed was passed over in round 2, with the
\* target of the failed attempt still unactivated
C5_Witness ==
  \E j \in 1..Len(draws) :
    /\ draws[j].round = 1
    /\ ~Succeeded(draws[j])
    /\ draws[j].dest \notin Range(A)
    /\ round >= 2
    /\ pc = "returned"

\* the record of a trial that is over or under way has no empty layer
\* between layer 0 and its last one
NoEmptyLayerInside(layers) ==
  \A k \in 2..(Len(layers) - 1) : layers[k] # <<>>

\* C6 (safety part): run to quiescence, the rounds begun never exceed
\* (nodes - distinct seeds + 1), no round follows one that activated
\* nothing, and the record returned ends with an empty layer.
C6_Shape ==
  steps <= 0 =>
    /\ round <= NumNodes - Cardinality(Range(seeds)) + 1
    /\ NoEmptyLayerInside(layer_i_nodes)
    /\ pc = "round" => (Len(layer_i_nodes) = round /\
                        (round > 1 => layer_i_nodes[round] # <<>>))
    /\ pc = "returned" =>
         /\ Len(layer_i_nodes) = round + 1
         /\ layer_i_nodes[Len(layer_i_nodes)] = <<>>

\* C6: run to quiescence, independent_cascade terminates, and it stops at
\* the first round that activates no new node.
C6_TerminatesAtFirstEmptyRound ==
  /\ [](C6_Shape)
  /\ (steps <= 0) ~> (pc = "returned")

\* a run to quiescence that took the largest number of rounds
C6_Witness ==
  /\ steps <= 0
  /\ pc = "returned"
  /\ round = NumNodes - Cardinality(Range(seeds)) + 1
  /\ round >= 3

\* C7: the call leaves the caller's graph as it was: the same edges, the
\* same act_prob (or none) on each.
C7_CallerGraphUnchanged == G = G0

\* C8: with a seed that is no node of the graph the call fails at the seed
\* check: no draw, no round, no act_prob written, no copy made.
C8_UnknownSeedFailsFirst ==
  ~(Range(seeds) \subseteq Node) =>
    /\ pc \in {"check_seeds", "raised"}
    /\ draws = <<>>
    /\ round = 0
    /\ G = G0
    /\ DGcopy = <<>>

\* the call failed on an unknown seed although there was an act_prob to
\* write and an edge to try
C8_Witness ==
  /\ pc = "raised"
  /\ ~(Range(seeds) \subseteq Node)
  /\ ~weighted_graph
  /\ \E e \in Edges(G0) : ~HasActProb(G0, e) /\ e[1] \in Range(seeds)

HasProbAboveOne(g) == \E e \in Edges(g) : HasActProb(g, e) /\ ActProb(g, e) > One
LacksProb(g) == \E e \in Edges(g) : ~HasActProb(g, e)

\* C9: in weighted mode a graph with an act_prob above 1 makes the call
\* fail at set-up: no round of diffusion is begun, no draw is made.
C9_AboveOneFailsAtSetup ==
  (weighted_graph /\ HasProbAboveOne(G0)) =>
    /\ round = 0
    /\ draws = <<>>

\* C10: a call that fails has made no draw, and in weighted mode no draw
\* is made on a graph with an edge that lacks act_prob.
C10_FailuresPrecedeDraws ==
  /\ pc = "raised" => draws = <<>>
  /\ (weighted_graph /\ LacksProb(G0)) => draws = <<>>

\* the runs to quiescence (steps = 0, the default) of the edge-enumeration
\* strategy, with the fairness of a sequential program: a call that can take
\* a step takes it
InitQuiescence ==
  /\ G \in Graphs(MaxEdges, {<<p>> : p \in {5, One}})
  /\ seeds \in SeedLists(Node)
  /\ steps = 0
  /\ weighted_graph = TRUE
  /\ copy_graph = FALSE
  /\ InitCall

FairSpec == InitQuiescence /\ [][Next]_vars /\ WF_vars(Next)

\* ------------------------------------------------- step budgets (C11, C12)
\* Calls with a positive step budget and a seed list that may be as long as
\* the graph has nodes: one entry more than SeedLists gives.
LongSeedLists == UNION {[1..n -> Node] : n \in 0..(MaxSeeds + 1)}

InitBudget ==
  /\ G \in Graphs(MaxEdges, {<<p>> : p \in {5, One}})
  /\ seeds \in LongSeedLists
  /\ steps \in 1..MaxSteps
  /\ weighted_graph = TRUE
  /\ copy_graph = FALSE
  /\ InitCall

SpecBudget == InitBudget /\ [][Next]_vars

\* C11: a call with steps = 1 that has returned has a record of exactly two
\* layers, the seeds and the nodes activated in the single round.
C11_OneStepTwoLayers ==
  (pc = "returned" /\ steps = 1) => Len(layer_i_nodes) = 2

\* C12: with a positive step budget n at most n rounds are begun, the record
\* has at most n + 1 layers, and every call of _prop_success is made in one
\* of the first n rounds.
C12_AtMostStepsRounds ==
  steps > 0 =>
    /\ round <= steps
    /\ Len(layer_i_nodes) <= steps + 1
    /\ \A k \in 1..Len(draws) : draws[k].round <= steps

\* the budget ended the call while the cascade could go on: a node activated
\* in the last round has an untried edge to a node that is not activated
C12_Witness ==
  /\ pc = "returned"
  /\ steps > 0
  /\ round = steps
  /\ Len(layer_i_nodes) = steps + 1
  /\ \E e \in Edges(G) : /\ e[1] \in Range(layer_i_nodes[steps + 1])
                         /\ e[2] \notin Range(A)
                         /\ AttemptsOn(e) = 0

\* C13: layer 0 of the record is the seed list, whatever has been activated
\* since, and every seed is in the union of the layers.
C13_Layer0IsSeeds ==
  layer_i_nodes # <<>> =>
    /\ layer_i_nodes[1] = seeds
    /\ Range(seeds) \subseteq Activated(layer_i_nodes)

\* a returned record with two rounds of activations after the seeds
C13_Witness ==
  /\ pc = "returned"
  /\ seeds # <<>>
  /\ Len(layer_i_nodes) >= 3
  /\ layer_i_nodes[2] # <<>>
  /\ layer_i_nodes[3] # <<>>
  /\ Len(A) > Len(seeds)

\* ------------------------------------------ vectorized_IC alone (C14, C15)
\* vectorized_IC called on its own, with no trial before it: a weighted
\* graph and a list of seeds of the graph
InitFrontier ==
  /\ G \in Graphs(MaxEdges, {<<p>> : p \in {5, One}})
  /\ seeds \in SeedLists(Node)
  /\ steps = 0
  /\ weighted_graph = TRUE
  /\ copy_graph = FALSE
  /\ G0 = G
  /\ pc = "returned"
  /\ DGcopy = <<>>
  /\ todo = {}
  /\ A = <<>>
  /\ tried_edges = {}
  /\ layer_i_nodes = <<>>
  /\ steps_left = 0
  /\ len_old = 0
  /\ activated_nodes_of_this_round = {}
  /\ cur_tried_edges = {}
  /\ idx = 0
  /\ nbs = <<>>
  /\ round = 0
  /\ draws = <<>>
  /\ infected_status = <<>>
  /\ current_active = <<>>
  /\ infected_nodes = <<>>
  /\ vround = 0
  /\ vtrials = {}
  /\ calls = <<>>
  /\ reversed_adj = FALSE
  /\ other = <<>>
  /\ NoExperiment

NextFrontier == VecStart \/ VecRound

SpecFrontier == InitFrontier /\ [][NextFrontier]_vars

\* C14: a node whose status is REMOVED has been INFECTED: it is in one of
\* the layers of infected_nodes. (A node whose incoming trials all failed
\* is then still UNINFECTED.)
C14_RemovedWasInfected ==
  \A v \in DOMAIN infected_status :
    infected_status[v] = REMOVED => v \in Activated(infected_nodes)

\* C15: the nodes of every layer but the last (the nodes that have been
\* active in a finished round) are REMOVED, no node is in two layers, and
\* the trials of one source node are all of one round.
C15_ActiveOnce ==
  /\ \A k \in 1..(Len(infected_nodes) - 1) :
       \A v \in Range(infected_nodes[k]) : infected_status[v] = REMOVED
  /\ \A k, j \in 1..Len(infected_nodes) :
       k # j => Range(infected_nodes[k]) \cap Range(infected_nodes[j]) = {}
  /\ \A t1, t2 \in vtrials : t1.src = t2.src => t1.round = t2.round

\* a finished run of three rounds: the seeds and the nodes they infected
\* have each been active and are REMOVED
C15_Witness ==
  /\ pc = "vec_done"
  /\ vround >= 3
  /\ \E t \in vtrials : t.round = 1
  /\ \E t \in vtrials : t.round = 2
  /\ \E v \in Node : infected_status[v] = REMOVED /\ v \notin Range(seeds)
                       /\ v \in Activated(infected_nodes)

\* ------------------------------------------------ calls in sequence (C17)
\* what the caller keeps of a call that has returned
Result ==
  [G |-> G, seeds |-> seeds, steps |-> steps, layers |-> layer_i_nodes, A |-> A,
   tried |-> tried_edges, draws |-> draws]

\* a new call of independent_cascade: a new frame, with new locals
NewLocals ==
  /\ DGcopy' = <<>>
  /\ todo' = {}
  /\ A' = <<>>
  /\ tried_edges' = {}
  /\ layer_i_nodes' = <<>>
  /\ steps_left' = 0
  /\ len_old' = 0
  /\ activated_nodes_of_this_round' = {}
  /\ cur_tried_edges' = {}
  /\ idx' = 0
  /\ nbs' = <<>>
  /\ round' = 0
  /\ draws' = <<>>

NewCall == pc' = "check_seeds" /\ NewLocals

\* the caller keeps the record of the first call and calls again with the
\* same graph, the same seed list and the same step budget
Again ==
  /\ pc = "returned"
  /\ calls = <<>>
  /\ calls' = <<Result>>
  /\ NewCall
  /\ UNCHANGED <<G, G0, seeds, steps, weighted_graph, copy_graph, reversed_adj,
                 other, experiment, vec>>

InitRepeat ==
  /\ G \in Graphs(MaxEdges, {<<p>> : p \in {5, One}})
  /\ seeds \in SeedLists(Node)
  /\ steps \in 0..MaxSteps
  /\ weighted_graph = TRUE
  /\ copy_graph = FALSE
  /\ InitCall

NextRepeat == Next \/ Again

SpecRepeat == InitRepeat /\ [][NextRepeat]_vars

\* the values random.random() returned, in the order of the calls
Stream(ds) == [k \in 1..Len(ds) |-> ds[k].r]

\* one of the two sequences starts with the other
SamePrefix(s, t) ==
  \A k \in 1..Len(s) : k <= Len(t) => s[k] = t[k]

IsDuplicateFree(s) == \A i, j \in 1..Len(s) : s[i] = s[j] => i = j

\* the caller keeps the record of the first call and calls again with the
\* same graph and step budget and a seed list of the same elements, in any
\* order and with any repeats
AgainWithSeeds ==
  /\ pc = "returned"
  /\ calls = <<>>
  /\ calls' = <<Result>>
  /\ \E s \in LongSeedLists : Range(s) = Range(seeds) /\ seeds' = s
  /\ NewCall
  /\ UNCHANGED <<G, G0, steps, weighted_graph, copy_graph, reversed_adj, other,
                 experiment, vec>>

InitSeedOrder ==
  /\ G \in Graphs(MaxEdges, {<<p>> : p \in {5, One}})
  /\ seeds \in {s \in SeedLists(Node) : IsDuplicateFree(s)}
  /\ steps \in StepBudgets
  /\ weighted_graph = TRUE
  /\ copy_graph = FALSE
  /\ InitCall

NextSeedOrder == Next \/ AgainWithSeeds

SpecSeedOrder == InitSeedOrder /\ [][NextSeedOrder]_vars

\* the edges _prop_success was called for
Attempted(ds) == {<<ds[k].src, ds[k].dest>> : k \in 1..Len(ds)}

\* an edge tried in both calls had the same outcome in both
SameOutcomes(ds, es) ==
  \A i \in 1..Len(ds) : \A j \in 1..Len(es) :
    (ds[i].src = es[j].src /\ ds[i].dest = es[j].dest) =>
      (Succeeded(ds[i]) <=> Succeeded(es[j]))

\* C19: a call with a seed list of the same elements as the duplicate-free
\* list of the first call, and the same outcome on every edge both tried,
\* returns the same final activated set and has tried the same edges.
C19_SeedListIsASet ==
  (calls # <<>> /\ pc = "returned" /\ SameOutcomes(calls[1].draws, draws)) =>
    /\ Activated(layer_i_nodes) = Activated(calls[1].layers)
    /\ Attempted(draws) = Attempted(calls[1].draws)

\* ------------------------------------------------ one round's edges (C20)
\* Calls on graphs whose adjacency lists are in either order, with the seeds
\* in any order.
InitOrder ==
  /\ G \in Graphs(MaxEdges, {<<p>> : p \in {5, One}})
  /\ seeds \in SeedLists(Node)
  /\ steps \in 0..MaxSteps
  /\ weighted_graph = TRUE
  /\ copy_graph = FALSE
  /\ reversed_adj \in BOOLEAN
  /\ other = <<>>
  /\ NoExperiment
  /\ InitLocals

SpecOrder == InitOrder /\ [][Next]_vars

\* the edges from a node of the list a to a node outside it that are not
\* in tried
Untried(g, a, tried) ==
  {e \in Edges(g) : e[1] \in Range(a) /\ e[2] \notin Range(a) /\ e \notin tried}

\* `for s in A` and every `for nb in G.successors(s)` have ended
RoundDone == pc = "round" /\ idx = Len(A) /\ nbs = <<>>

\* C20: during a round only edges from A to nodes outside A that are not in
\* tried_edges are tried, and when the round's loops have ended all of them
\* have been: the set is fixed by A and tried_edges as sets, whatever the
\* order of A and of the adjacency lists and whatever succeeded on the way.
C20_RoundTriesUntriedEdges ==
  pc = "round" =>
    /\ cur_tried_edges \subseteq Untried(DG, A, tried_edges)
    /\ Attempted(SelectSeq(draws, LAMBDA d : d.round = round)) = cur_tried_edges
    /\ RoundDone => cur_tried_edges = Untried(DG, A, tried_edges)

\* the loops of a round have ended; two nodes of A tried the same target,
\* the first with success, and the adjacency lists are in descending order
C20_Witness ==
  /\ RoundDone
  /\ reversed_adj
  /\ \E k, j \in 1..Len(draws) :
       /\ k < j
       /\ draws[k].round = round
       /\ draws[j].round = round
       /\ draws[k].dest = draws[j].dest
       /\ draws[k].src # draws[j].src
       /\ Succeeded(draws[k])

\* ------------------------------------------- two trials interleaved (C18)
\* the locals of the trial that is running
Frame ==
  [pc |-> pc, DGcopy |-> DGcopy, todo |-> todo, A |-> A,
   tried_edges |-> tried_edges, layer_i_nodes |-> layer_i_nodes,
   steps_left |-> steps_left, len_old |-> len_old,
   activated_nodes_of_this_round |-> activated_nodes_of_this_round,
   cur_tried_edges |-> cur_tried_edges, idx |-> idx, nbs |-> nbs,
   round |-> round, draws |-> draws]

\* the locals of a trial whose first step is still to come
NewFrame ==
  [pc |-> "check_seeds", DGcopy |-> <<>>, todo |-> {}, A |-> <<>>,
   tried_edges |-> {}, layer_i_nodes |-> <<>>, steps_left |-> 0, len_old |-> 0,
   activated_nodes_of_this_round |-> {}, cur_tried_edges |-> {}, idx |-> 0,
   nbs |-> <<>>, round |-> 0, draws |-> <<>>]

\* what a trial finds when it goes on: its own locals. A is a deep copy of
\* the seeds (line 88) and tried_edges and layer_i_nodes are made by the
\* call (lines 96-98, 110-112), so no other trial holds them.
ResumedSharingRecord(f) == [f EXCEPT !.layer_i_nodes = layer_i_nodes]
Resumed(f) == f

\* the running trial stops where it is and the other one goes on
Switch ==
  /\ other # <<>>
  /\ other' = Frame
  /\ LET f == Resumed(other) IN
       /\ pc' = f.pc
       /\ DGcopy' = f.DGcopy
       /\ todo' = f.todo
       /\ A' = f.A
       /\ tried_edges' = f.tried_edges
       /\ layer_i_nodes' = f.layer_i_nodes
       /\ steps_left' = f.steps_left
       /\ len_old' = f.len_old
       /\ activated_nodes_of_this_round' = f.activated_nodes_of_this_round
       /\ cur_tried_edges' = f.cur_tried_edges
       /\ idx' = f.idx
       /\ nbs' = f.nbs
       /\ round' = f.round
       /\ draws' = f.draws
  /\ UNCHANGED <<G, G0, seeds, steps, weighted_graph, copy_graph, calls,
                 reversed_adj, experiment, vec>>

\* two trials of the call value_function makes: the same graph object, the
\* same seed list, the defaults of the other arguments. The states are the
\* pairs of states of two trials, so the graphs have one edge less than in
\* Init.
InitConcurrent ==
  /\ G \in Graphs(MaxEdges - 1, {<<p>> : p \in {5, One}})
  /\ seeds \in SeedLists(Node)
  /\ steps = 0
  /\ weighted_graph = TRUE
  /\ copy_graph = FALSE
  /\ reversed_adj = FALSE
  /\ other = NewFrame
  /\ NoExperiment
  /\ InitLocals

NextConcurrent == Next \/ Switch

SpecConcurrent == InitConcurrent /\ [][NextConcurrent]_vars

\* the edges _prop_success was called for, in the order of the calls
AttemptedSeq(ds) == [k \in 1..Len(ds) |-> <<ds[k].src, ds[k].dest>>]

Topics == {1, 2}
NumTopics == Cardinality(Topics)
\* self.active_nodes: the node of each location_idx
active_nodes == <<2, 3>>
\* n_mc after line 121
TrialCounts == {1, 2}

\* self.K_networks: a copy of one network per topic (create_K_networks),
\* each edge with an act_prob of its own in each copy. The calls of a
\* value_function run in sequence, so the graphs have one edge less than
\* in Init.
KNetworks ==
  UNION {[Topics -> [E -> {<<5>>, <<One>>}]] :
         E \in {X \in SUBSET Pairs : Cardinality(X) <= MaxEdges - 1}}

\* seed_set: pairs (item_idx, location_idx), at most one per topic on
\* average, repeats allowed
SeedSets ==
  UNION {[1..n -> Topics \X DOMAIN active_nodes] : n \in 0..NumTopics}

\* line 128: [self.active_nodes[location_idx] for item_idx, location_idx in
\* seed_set if item_idx == topic_idx]
SeedT(topic) ==
  LET sel == SelectSeq(seed_set, LAMBDA p : p[1] = topic)
  IN [k \in 1..Len(sel) |-> active_nodes[sel[k][2]]]

\* len(set(lst)), line 143
CountAll(lst) == Len(lst)
CountDistinct(lst) == Cardinality(Range(lst))

RECURSIVE SumCounts(_, _)
SumCounts(lists, n) ==
  IF n = 0 THEN 0 ELSE CountDistinct(lists[n]) + SumCounts(lists, n - 1)

\* np.mean of the counts, as the fraction num / den
Mean(lists) == [num |-> SumCounts(lists, Len(lists)), den |-> Len(lists)]

InitValue ==
  /\ K_networks \in KNetworks
  /\ seed_set \in SeedSets
  /\ n_mc \in TrialCounts
  /\ topic_idx = 0
  /\ mc_t = 0
  /\ vf_infected_nodes = <<>>
  /\ value = <<>>
  /\ G = K_networks[1]
  /\ G0 = G
  /\ seeds = <<>>
  /\ steps = 0
  /\ weighted_graph = TRUE
  /\ copy_graph = FALSE
  /\ reversed_adj = FALSE
  /\ other = <<>>
  /\ calls = <<>>
  /\ pc = "vf_start"
  /\ DGcopy = <<>>
  /\ todo = {}
  /\ A = <<>>
  /\ tried_edges = {}
  /\ layer_i_nodes = <<>>
  /\ steps_left = 0
  /\ len_old = 0
  /\ activated_nodes_of_this_round = {}
  /\ cur_tried_edges = {}
  /\ idx = 0
  /\ nbs = <<>>
  /\ round = 0
  /\ draws = <<>>
  /\ infected_status = <<>>
  /\ current_active = <<>>
  /\ infected_nodes = <<>>
  /\ vround = 0
  /\ vtrials = {}

\* line 122
VFStart ==
  /\ pc = "vf_start"
  /\ vf_infected_nodes' = [i \in 1..n_mc |-> <<>>]
  /\ topic_idx' = 1
  /\ pc' = "vf_topic"
  /\ UNCHANGED <<G, G0, seeds, steps, weighted_graph, copy_graph, calls,
                 reversed_adj, other, K_networks, seed_set, n_mc, mc_t, value,
                 DGcopy, todo, trial, vec>>

\* lines 124-133: the next topic; with seeds for it, the first of the n_mc
\* calls independent_cascade(self.K_networks[topic_idx], list(set(seed_t)))
VFTopic ==
  /\ pc = "vf_topic"
  /\ topic_idx <= NumTopics
  /\ IF SeedT(topic_idx) = <<>>
     THEN /\ topic_idx' = topic_idx + 1
          /\ UNCHANGED <<G, G0, seeds, mc_t, pc, DGcopy, todo, trial>>
     ELSE /\ G' = K_networks[topic_idx]
          /\ G0' = K_networks[topic_idx]
          /\ seeds' = SetToList(Range(SeedT(topic_idx)))
          /\ mc_t' = 1
          /\ NewCall
          /\ UNCHANGED topic_idx
  /\ UNCHANGED <<steps, weighted_graph, copy_graph, calls, reversed_adj, other,
                 K_networks, seed_set, n_mc, vf_infected_nodes, value, vec>>

\* lines 134-135 and 139-140: a call has returned; its layers, flattened,
\* are added to the list of its trial; then the next call of p.map, or the
\* next topic
VFCollect ==
  /\ pc = "returned"
  /\ vf_infected_nodes' =
       [vf_infected_nodes EXCEPT ![mc_t] = @ \o Flatten(layer_i_nodes)]
  /\ calls' = Append(calls, Result)
  /\ NewLocals
  /\ IF mc_t < n_mc
     THEN /\ mc_t' = mc_t + 1
          /\ pc' = "check_seeds"
          /\ UNCHANGED topic_idx
     ELSE /\ topic_idx' = topic_idx + 1
          /\ pc' = "vf_topic"
          /\ UNCHANGED mc_t
  /\ UNCHANGED <<G, G0, seeds, steps, weighted_graph, copy_graph, reversed_adj,
                 other, K_networks, seed_set, n_mc, value, vec>>

\* lines 143-146
VFReturn ==
  /\ pc = "vf_topic"
  /\ topic_idx > NumTopics
  /\ value' = Mean(vf_infected_nodes)
  /\ pc' = "vf_done"
  /\ UNCHANGED <<G, G0, seeds, steps, weighted_graph, copy_graph, calls,
                 reversed_adj, other, K_networks, seed_set, n_mc, topic_idx, mc_t,
                 vf_infected_nodes, DGcopy, todo, trial, vec>>

NextValue == Next \/ VFStart \/ VFTopic \/ VFCollect \/ VFReturn

SpecValue == InitValue /\ [][NextValue]_vars

\* the nodes a finished call activated: its seeds and the targets of its
\* successful calls of _prop_success
Hits(c) ==
  Range(c.seeds) \cup
  {c.draws[k].dest : k \in {j \in 1..Len(c.draws) :
      prop_success(c.draws[j].r, ActProb(c.G, <<c.draws[j].src, c.draws[j].dest>>))}}

\* the nodes activated in trial i, for any topic: p.map makes the calls of a
\* topic in the order of the trials
HitsOfTrial(i) ==
  UNION {Hits(calls[k]) : k \in {j \in 1..Len(calls) : ((j - 1) % n_mc) + 1 = i}}

RECURSIVE SumHits(_)
SumHits(n) == IF n = 0 THEN 0 ELSE Cardinality(HitsOfTrial(n)) + SumHits(n - 1)

\* C16: what value_function returns is the sum over the n_mc trials of the
\* number of distinct nodes activated in the trial, divided by n_mc; with
\* an empty seed_set it is 0.
C16_MeanOfDistinctActivated ==
  pc = "vf_done" =>
    /\ value.den = n_mc
    /\ value.num = SumHits(n_mc)
    /\ seed_set = <<>> => value.num = 0

\* value_function has returned a mean that is no whole number, with seeds
\* for both topics and a node that was activated for both in one trial
C16_Witness ==
  /\ pc = "vf_done"
  /\ n_mc = 2
  /\ value.num % 2 = 1
  /\ \A i \in Topics : SeedT(i) # <<>>
  /\ \E k \in 1..Len(calls) : \E j \in 1..Len(calls) :
       /\ k < j
       /\ (k - 1) % n_mc = (j - 1) % n_mc
       /\ Hits(calls[k]) \cap Hits(calls[j]) # {}

\* ------------------------------------------------ the layers (C21, C22)
\* the successful calls of _prop_success toward v, by round
WonRounds(v) ==
  {draws[k].round : k \in {j \in 1..Len(draws) : draws[j].dest = v /\ Succeeded(draws[j])}}

AgainToQuiescence ==
  /\ pc = "returned"
  /\ calls = <<>>
  /\ calls' = <<Result>>
  /\ steps' \in {-1, 0}
  /\ NewCall
  /\ UNCHANGED <<G, G0, seeds, weighted_graph, copy_graph, reversed_adj, other,
                 experiment, vec>>

\* a first call with a duplicate-free seed list and a step budget of the
\* number of nodes or more
InitEnoughSteps ==
  /\ G \in Graphs(MaxEdges, {<<p>> : p \in {5, One}})
  /\ seeds \in {s \in SeedLists(Node) : IsDuplicateFree(s)}
  /\ steps \in {NumNodes, NumNodes + 1}
  /\ weighted_graph = TRUE
  /\ copy_graph = FALSE
  /\ InitCall

NextEnoughSteps == Next \/ AgainToQuiescence

SpecEnoughSteps == InitEnoughSteps /\ [][NextEnoughSteps]_vars

\* C22: when the run to quiescence that follows a call with a budget of
\* len(G) steps or more has returned, with the same outcome on every edge
\* both tried, the two final activated sets are equal and the record of the
\* run to quiescence is that of the budgeted call, or that with one empty
\* layer added at the end.
C22_EnoughStepsIsQuiescence ==
  (calls # <<>> /\ pc = "returned" /\ SameOutcomes(calls[1].draws, draws)) =>
    /\ Activated(layer_i_nodes) = Activated(calls[1].layers)
    /\ \/ layer_i_nodes = calls[1].layers
       \/ layer_i_nodes = Append(calls[1].layers, <<>>)

\* both calls have returned on the same outcomes after two rounds that
\* activated nodes; the budgeted call stopped with every node activated,
\* the run to quiescence went through one more round
C22_Witness ==
  /\ calls # <<>>
  /\ pc = "returned"
  /\ SameOutcomes(calls[1].draws, draws)
  /\ steps <= 0
  /\ Len(calls[1].layers) = 3
  /\ calls[1].layers[3] # <<>>
  /\ layer_i_nodes = Append(calls[1].layers, <<>>)
====
